---- MODULE Spec2Model ----
(***************************************************************************)
(* Air-Instruments: the gesture trigger engine (src/App.tsx) and the audio *)
(* synthesis engine (src/services/audioEngine.ts).                         *)
(*                                                                         *)
(* Units.  Normalised landmark coordinates (0..1) are counted in steps of  *)
(* 1/Unit, Unit = 260, so that the string positions (k/13) and the         *)
(* positions 0.05, 0.1, 0.2, 0.5 and 0.9 are whole numbers.  Frame         *)
(* timestamps are milliseconds.  Durations of a SynthConfig are            *)
(* milliseconds, its levels (sustain, gain, delayMix) thousandths, and     *)
(* frequencies hundredths of a hertz.                                      *)
(***************************************************************************)
EXTENDS Integers, Sequences, FiniteSets, TLC

\* ------------------------------------------------------------------ bounds
\* Frames the frame loop processes in one behaviour.
MaxFrames == 3
\* Calls made on the engine's interface in one behaviour of SpecEngine.
MaxCalls == 4
\* Clicks (ENTER, preset buttons) in one behaviour of Spec.
MaxClicks == 3

\* --------------------------------------------------------------- constants
NUM_STRINGS == 12
debounceTime == 40
\* velocityThreshold = 0.00015 = velocityThresholdNum / velocityThresholdDen
velocityThresholdNum == 15
velocityThresholdDen == 100000
\* y-zone: 0.1 < y < 0.9, as tenths
yZoneLow == 1
yZoneHigh == 9
\* isFingerOpen: distWristToTip > distWristToPip * 0.9, as tenths
openFactor == 9
\* noteMap[note] || 440, in hundredths of a hertz
fallbackFreq == 44000
\* stopTime = t + attack + decay + release + 0.1, in milliseconds
tailMargin == 100
\* the instant-attack threshold: attack < 0.005 (ms)
attackThreshold == 5
\* the 0.001 added to gain * sustain, and the release target 0.0001
\* (millionths)
decayOffset == 1000
releaseFloor == 100

Unit == 20 * (NUM_STRINGS + 1)

Strings == 0 .. (NUM_STRINGS - 1)

Abs(n) == IF n < 0 THEN -n ELSE n

\* ------------------------------------------------------------ types.ts data
INSTRUMENT_PRESETS ==
    "harp" :> [id |-> "harp",
        notes |-> <<"C4", "D4", "E4", "G4", "A4", "C5", "D5", "E5", "G5", "A5", "C6", "D6">>,
        config |-> [waveform |-> "sine", attack |-> 5, decay |-> 100, sustain |-> 300, release |-> 1500, gain |-> 300, filterFreq |-> 2000, delayMix |-> 300, detune |-> 0]] @@
    "bass" :> [id |-> "bass",
        notes |-> <<"C2", "D2", "E2", "G2", "A2", "C3", "D3", "E3", "G3", "A3", "C4", "D4">>,
        config |-> [waveform |-> "sawtooth", attack |-> 10, decay |-> 200, sustain |-> 800, release |-> 400, gain |-> 250, filterFreq |-> 400, delayMix |-> 0, detune |-> 10]] @@
    "8bit" :> [id |-> "8bit",
        notes |-> <<"C4", "D4", "E4", "G4", "A4", "C5", "D5", "E5", "G5", "A5", "C6", "D6">>,
        config |-> [waveform |-> "square", attack |-> 1, decay |-> 100, sustain |-> 100, release |-> 100, gain |-> 150, filterFreq |-> 8000, delayMix |-> 0, detune |-> 0]] @@
    "koto" :> [id |-> "koto",
        notes |-> <<"C4", "Db4", "F4", "G4", "Bb4", "C5", "Db5", "F5", "G5", "Bb5", "C6", "Db6">>,
        config |-> [waveform |-> "triangle", attack |-> 0, decay |-> 200, sustain |-> 0, release |-> 400, gain |-> 400, filterFreq |-> 3000, delayMix |-> 100, detune |-> 0]] @@
    "pad" :> [id |-> "pad",
        notes |-> <<"C4", "Eb4", "F4", "G4", "Bb4", "C5", "Eb5", "F5", "G5", "Bb5", "C6", "Eb6">>,
        config |-> [waveform |-> "triangle", attack |-> 800, decay |-> 500, sustain |-> 800, release |-> 2000, gain |-> 300, filterFreq |-> 800, delayMix |-> 600, detune |-> 5]] @@
    "lead" :> [id |-> "lead",
        notes |-> <<"C4", "Eb4", "F4", "G4", "Bb4", "C5", "Eb5", "F5", "G5", "Bb5", "C6", "Eb6">>,
        config |-> [waveform |-> "sawtooth", attack |-> 10, decay |-> 300, sustain |-> 600, release |-> 500, gain |-> 150, filterFreq |-> 5000, delayMix |-> 400, detune |-> 15]] @@
    "marimba" :> [id |-> "marimba",
        notes |-> <<"C4", "D4", "E4", "G4", "A4", "C5", "D5", "E5", "G5", "A5", "C6", "D6">>,
        config |-> [waveform |-> "sine", attack |-> 1, decay |-> 50, sustain |-> 0, release |-> 100, gain |-> 500, filterFreq |-> 3000, delayMix |-> 0, detune |-> 0]] @@
    "scifi" :> [id |-> "scifi",
        notes |-> <<"C4", "Db4", "D4", "Eb4", "E4", "F4", "Gb4", "G4", "Ab4", "A4", "Bb4", "B4">>,
        config |-> [waveform |-> "sawtooth", attack |-> 1, decay |-> 100, sustain |-> 0, release |-> 200, gain |-> 200, filterFreq |-> 1500, delayMix |-> 200, detune |-> 50]] @@
    "organ" :> [id |-> "organ",
        notes |-> <<"C4", "Eb4", "F4", "G4", "Bb4", "C5", "Eb5", "F5", "G5", "Bb5", "C6", "Eb6">>,
        config |-> [waveform |-> "triangle", attack |-> 100, decay |-> 100, sustain |-> 1000, release |-> 800, gain |-> 300, filterFreq |-> 1200, delayMix |-> 300, detune |-> 4]] @@
    "glitch" :> [id |-> "glitch",
        notes |-> <<"C4", "Db4", "D4", "Eb4", "E4", "F4", "Gb4", "G4", "Ab4", "A4", "Bb4", "B4">>,
        config |-> [waveform |-> "square", attack |-> 10, decay |-> 100, sustain |-> 400, release |-> 100, gain |-> 100, filterFreq |-> 8000, delayMix |-> 100, detune |-> 100]]

PresetIds == DOMAIN INSTRUMENT_PRESETS

\* INSTRUMENT_PRESETS[0]
InitialPreset == "harp"

\* ---------------------------------------------------- audioEngine.ts: notes
noteMap ==
    "C0" :> 1635 @@ "C#0" :> 1732 @@ "Db0" :> 1732 @@ "D0" :> 1835 @@ "D#0" :> 1945 @@ "Eb0" :> 1945 @@
    "E0" :> 2060 @@ "F0" :> 2183 @@ "F#0" :> 2312 @@ "Gb0" :> 2312 @@ "G0" :> 2450 @@ "G#0" :> 2596 @@
    "Ab0" :> 2596 @@ "A0" :> 2750 @@ "A#0" :> 2914 @@ "Bb0" :> 2914 @@ "B0" :> 3087 @@ "C1" :> 3270 @@
    "C#1" :> 3465 @@ "Db1" :> 3465 @@ "D1" :> 3671 @@ "D#1" :> 3889 @@ "Eb1" :> 3889 @@ "E1" :> 4120 @@
    "F1" :> 4365 @@ "F#1" :> 4625 @@ "Gb1" :> 4625 @@ "G1" :> 4900 @@ "G#1" :> 5191 @@ "Ab1" :> 5191 @@
    "A1" :> 5500 @@ "A#1" :> 5827 @@ "Bb1" :> 5827 @@ "B1" :> 6174 @@ "C2" :> 6541 @@ "C#2" :> 6930 @@
    "Db2" :> 6930 @@ "D2" :> 7342 @@ "D#2" :> 7778 @@ "Eb2" :> 7778 @@ "E2" :> 8241 @@ "F2" :> 8731 @@
    "F#2" :> 9250 @@ "Gb2" :> 9250 @@ "G2" :> 9800 @@ "G#2" :> 10383 @@ "Ab2" :> 10383 @@ "A2" :> 11000 @@
    "A#2" :> 11654 @@ "Bb2" :> 11654 @@ "B2" :> 12347 @@ "C3" :> 13081 @@ "C#3" :> 13859 @@ "Db3" :> 13859 @@
    "D3" :> 14683 @@ "D#3" :> 15556 @@ "Eb3" :> 15556 @@ "E3" :> 16481 @@ "F3" :> 17461 @@ "F#3" :> 18500 @@
    "Gb3" :> 18500 @@ "G3" :> 19600 @@ "G#3" :> 20765 @@ "Ab3" :> 20765 @@ "A3" :> 22000 @@ "A#3" :> 23308 @@
    "Bb3" :> 23308 @@ "B3" :> 24694 @@ "C4" :> 26163 @@ "C#4" :> 27718 @@ "Db4" :> 27718 @@ "D4" :> 29366 @@
    "D#4" :> 31113 @@ "Eb4" :> 31113 @@ "E4" :> 32963 @@ "F4" :> 34923 @@ "F#4" :> 36999 @@ "Gb4" :> 36999 @@
    "G4" :> 39200 @@ "G#4" :> 41530 @@ "Ab4" :> 41530 @@ "A4" :> 44000 @@ "A#4" :> 46616 @@ "Bb4" :> 46616 @@
    "B4" :> 49388 @@ "C5" :> 52325 @@ "C#5" :> 55437 @@ "Db5" :> 55437 @@ "D5" :> 58733 @@ "D#5" :> 62225 @@
    "Eb5" :> 62225 @@ "E5" :> 65926 @@ "F5" :> 69846 @@ "F#5" :> 73999 @@ "Gb5" :> 73999 @@ "G5" :> 78399 @@
    "G#5" :> 83061 @@ "Ab5" :> 83061 @@ "A5" :> 88000 @@ "A#5" :> 93233 @@ "Bb5" :> 93233 @@ "B5" :> 98777 @@
    "C6" :> 104650 @@ "C#6" :> 110873 @@ "Db6" :> 110873 @@ "D6" :> 117466 @@ "D#6" :> 124451 @@ "Eb6" :> 124451 @@
    "E6" :> 131851 @@ "F6" :> 139691 @@ "F#6" :> 147998 @@ "Gb6" :> 147998 @@ "G6" :> 156798 @@ "G#6" :> 166122 @@
    "Ab6" :> 166122 @@ "A6" :> 176000 @@ "A#6" :> 186466 @@ "Bb6" :> 186466 @@ "B6" :> 197553

\* Names every object literal inherits from Object.prototype: noteMap[name] is
\* then a function (or, for __proto__, an object), never undefined.
ObjectPrototypeKeys ==
    {"constructor", "toString", "valueOf", "hasOwnProperty", "isPrototypeOf",
     "propertyIsEnumerable", "toLocaleString", "__proto__"}

\* The value of noteMap[note] || 440: a number of hertz, or the inherited
\* property when the name is one of Object.prototype's.
noteToFreq(note) ==
    IF note \in DOMAIN noteMap
    THEN [kind |-> "number",
          hz |-> IF noteMap[note] # 0 THEN noteMap[note] ELSE fallbackFreq]
    ELSE IF note \in ObjectPrototypeKeys
         THEN [kind |-> "object", hz |-> 0]
         ELSE [kind |-> "number", hz |-> fallbackFreq]

\* --------------------------------------------------- audioEngine.ts: engine
\* The AudioEngine object.  ctx is "null" until init builds the AudioContext,
\* then the context's state ("suspended" or "running"); masterGain, compressor,
\* delayNode and delayGain are assigned together with ctx, graphs counts how
\* often.  resumeRequested: a ctx.resume() promise is outstanding.
newAudioEngine(initialConfig) ==
    [ctx |-> "null", graphs |-> 0, config |-> initialConfig,
     delayGain |-> [exists |-> FALSE, value |-> 0, target |-> 0],
     voices |-> << >>, currentTime |-> 0, resumeRequested |-> FALSE]

\* An init without the guard `if (this.ctx) return`: every call constructs.
initAlways(e, ctxState) ==
    IF ctxState = "throws"
    THEN [e |-> e, outcome |-> "rejected"]
    ELSE [e |-> [e EXCEPT !.ctx = ctxState,
                          !.graphs = @ + 1,
                          !.delayGain = [exists |-> TRUE,
                                         value |-> e.config.delayMix,
                                         target |-> e.config.delayMix],
                          !.resumeRequested = (ctxState = "suspended")],
          outcome |-> IF ctxState = "suspended" THEN "pending" ELSE "resolved"]

\* init up to its await.  ctxState is what the new AudioContext starts in
\* ("running", "suspended"), or "throws" when the constructor throws.
\* outcome: "resolved" (returned), "pending" (awaiting resume), "rejected".
init(e, ctxState) ==
    IF e.ctx # "null"
    THEN [e |-> e, outcome |-> "resolved"]
    ELSE IF ctxState = "throws"
    THEN [e |-> e, outcome |-> "rejected"]
    ELSE [e |-> [e EXCEPT !.ctx = ctxState,
                          !.graphs = @ + 1,
                          !.delayGain = [exists |-> TRUE,
                                         value |-> e.config.delayMix,
                                         target |-> e.config.delayMix],
                          !.resumeRequested = (ctxState = "suspended")],
          outcome |-> IF ctxState = "suspended" THEN "pending" ELSE "resolved"]

\* Envelope levels are millionths: a level of a SynthConfig (thousandths)
\* as an envelope level.
Level(thousandths) == 1000 * thousandths

\* An attack that is always a linear ramp ending at t + attack.
attackAlwaysRamp(c, t) ==
    [kind |-> "linearRamp", value |-> Level(c.gain), time |-> t + c.attack]

\* The attack of the envelope: `if (this.config.attack < 0.005)
\* setValueAtTime(gain, t) else linearRampToValueAtTime(gain, t + attack)`.
attackEvent(c, t) ==
    IF c.attack < attackThreshold
    THEN [kind |-> "setValue", value |-> Level(c.gain), time |-> t]
    ELSE [kind |-> "linearRamp", value |-> Level(c.gain), time |-> t + c.attack]

\* The value the decay ramp ends at: gain * sustain + 0.001.
decayTarget(c) == c.gain * c.sustain + decayOffset

\* The automation events playNote schedules on the voice's gain, in order.
envelope(c, t) ==
    << [kind |-> "setValue", value |-> 0, time |-> t],
       attackEvent(c, t),
       [kind |-> "exponentialRamp", value |-> decayTarget(c),
        time |-> t + c.attack + c.decay],
       [kind |-> "exponentialRamp", value |-> releaseFloor,
        time |-> t + c.attack + c.decay + c.release] >>

\* A voice whose oscillator stops with the envelope, without the margin.
newVoiceNoTail(freq, c, t, bus) ==
    [freq |-> freq, waveform |-> c.waveform, detune |-> c.detune,
     filterFreq |-> c.filterFreq, config |-> c, envelope |-> envelope(c, t),
     start |-> t,
     stop |-> t + c.attack + c.decay + c.release,
     bus |-> bus, wired |-> TRUE]

\* The voice playNote wires into masterGain at audio time t under config c.
\* bus: the masterGain it is connected to (the bus of the graphs-th graph).
newVoice(freq, c, t, bus) ==
    [freq |-> freq, waveform |-> c.waveform, detune |-> c.detune,
     filterFreq |-> c.filterFreq, config |-> c, envelope |-> envelope(c, t),
     start |-> t,
     stop |-> t + c.attack + c.decay + c.release + tailMargin,
     bus |-> bus, wired |-> TRUE]

\* An updateConfig that re-shapes the voices already sounding.
updateConfigRetroactive(e, newConfig) ==
    [e EXCEPT !.config = newConfig,
              !.delayGain.target = IF e.delayGain.exists /\ e.ctx # "null"
                                   THEN newConfig.delayMix ELSE @,
              !.voices = [i \in DOMAIN e.voices |->
                            [newVoice(e.voices[i].freq, newConfig,
                                      e.voices[i].start, e.voices[i].bus)
                             EXCEPT !.wired = e.voices[i].wired]]]

\* An updateConfig that moves the delay-mix target by the new level instead
\* of to it.
updateConfigAdding(e, newConfig) ==
    IF e.delayGain.exists /\ e.ctx # "null"
    THEN [e EXCEPT !.config = newConfig,
                   !.delayGain.target = @ + newConfig.delayMix]
    ELSE [e EXCEPT !.config = newConfig]

\* An updateConfig that stores the new config with its release set to zero.
updateConfigZeroRelease(e, newConfig) ==
    IF e.delayGain.exists /\ e.ctx # "null"
    THEN [e EXCEPT !.config = [newConfig EXCEPT !.release = 0],
                   !.delayGain.target = newConfig.delayMix]
    ELSE [e EXCEPT !.config = [newConfig EXCEPT !.release = 0]]

updateConfig(e, newConfig) ==
    IF e.delayGain.exists /\ e.ctx # "null"
    THEN [e EXCEPT !.config = newConfig, !.delayGain.target = newConfig.delayMix]
    ELSE [e EXCEPT !.config = newConfig]

\* The guard of playNote: the engine takes the note.
engineReady(e) ==
    e.ctx # "null"

\* playNote(note).  threw: an exception leaves playNote (setValueAtTime is
\* given a value that is not a finite number: TypeError).
playNote(e, note) ==
    IF ~engineReady(e)
    THEN [e |-> e, threw |-> FALSE]
    ELSE LET e1 == IF e.ctx = "suspended"
                   THEN [e EXCEPT !.resumeRequested = TRUE]
                   ELSE e
             freq == noteToFreq(note)
         IN  IF freq.kind # "number"
             THEN [e |-> e1, threw |-> TRUE]
             ELSE [e |-> [e1 EXCEPT !.voices =
                              Append(@, newVoice(freq.hz, e1.config, e1.currentTime,
                                                 e1.graphs))],
                   threw |-> FALSE]

\* osc.onended of every voice whose stop time has passed: disconnect.
retire(voices, t) ==
    [i \in DOMAIN voices |->
        IF voices[i].stop <= t THEN [voices[i] EXCEPT !.wired = FALSE]
        ELSE voices[i]]

\* ------------------------------------------------- App.tsx: trigger engine
\* numHands of the HandLandmarker options
numHands == 2

\* The fingers array of processPhysics: tip and PIP landmark of each finger.
fingers ==
    << [tip |-> 8, pip |-> 6], [tip |-> 12, pip |-> 10],
       [tip |-> 16, pip |-> 14], [tip |-> 20, pip |-> 18] >>

wristIdx == 0

\* A finger id that does not tell the hands apart.
fingerIdOfTip(handIndex, tip) == tip

\* const fingerId = handIndex * 100 + tip
fingerIdOf(handIndex, tip) == handIndex * 100 + tip

FingerIds ==
    {fingerIdOf(h, fingers[i].tip) : h \in 0 .. (numHands - 1), i \in DOMAIN fingers}

\* A landmark a hand's array does not hold: landmarks[i] is undefined.
Undefined == [defined |-> FALSE, x |-> 0, y |-> 0]
Point(px, py) == [defined |-> TRUE, x |-> px, y |-> py]

\* An entry lastFingerData does not hold: get(fingerId) is undefined.
NoData == [seen |-> FALSE, x |-> 0, time |-> 0]

Hypot2(dx, dy) == dx * dx + dy * dy

\* A classification that takes every finger for open.
isFingerOpenAlways(landmarks, tipIdx, pipIdx, wristI) ==
    [threw |-> ~(landmarks[wristI].defined /\ landmarks[pipIdx].defined
                   /\ landmarks[tipIdx].defined),
     open |-> TRUE]

\* isFingerOpen: threw when wrist, pip or tip is undefined (reading .x of
\* undefined), else open iff distWristToTip > distWristToPip * 0.9, compared
\* as squares of tenfold distances.
isFingerOpen(landmarks, tipIdx, pipIdx, wristI) ==
    LET wrist == landmarks[wristI]
        pip == landmarks[pipIdx]
        tip == landmarks[tipIdx]
    IN  IF ~(wrist.defined /\ pip.defined /\ tip.defined)
        THEN [threw |-> TRUE, open |-> FALSE]
        ELSE [threw |-> FALSE,
              open |-> 10 * 10 * Hypot2(tip.x - wrist.x, tip.y - wrist.y)
                         > openFactor * openFactor
                             * Hypot2(pip.x - wrist.x, pip.y - wrist.y)]

stringSpacing == Unit \div (NUM_STRINGS + 1)

\* String positions counted from the left edge: stringSpacing * s.
stringXFromZero(s) == stringSpacing * s

\* String positions one spacing further right: stringSpacing * (s + 2).
stringXNext(s) == stringSpacing * (s + 2)

\* const stringX = stringSpacing * (s + 1)
stringX(s) == stringSpacing * (s + 1)

\* velocity > velocityThreshold, velocity = dt > 0 ? |dx| / dt : 0
velocityExceeds(dx, dt) ==
    /\ dt > 0
    /\ Abs(dx) * velocityThresholdDen > velocityThresholdNum * Unit * dt

\* A crossing test that does not count arrival on the string.
crossedStrict(lastX, x, sx) ==
    \/ lastX < sx /\ x > sx
    \/ lastX > sx /\ x < sx

\* A crossing test that counts arrival on the string and departure from it.
crossedBothEnds(lastX, x, sx) ==
    \/ lastX <= sx /\ x >= sx /\ lastX # x
    \/ lastX >= sx /\ x <= sx /\ lastX # x

\* crossedLeftToRight || crossedRightToLeft
crossed(lastX, x, sx) ==
    \/ lastX < sx /\ x >= sx
    \/ lastX > sx /\ x <= sx

\* y > 0.1 && y < 0.9
inYZone(y) ==
    /\ 10 * y > yZoneLow * Unit
    /\ 10 * y < yZoneHigh * Unit

\* A debounce gate that is always open.
debounceElapsedAlways(deb, s, now) == TRUE

\* now - stringDebounceRef.current[s] > debounceTime
debounceElapsed(deb, s, now) ==
    now - deb[s] > debounceTime

\* A debounce shared by all strings: every timestamp is set.
markAllTriggered(deb, s, now) ==
    [j \in DOMAIN deb |-> now]

\* stringDebounceRef.current[s] = now
markTriggered(deb, s, now) ==
    [deb EXCEPT ![s] = now]

\* instrument.notes[index % instrument.notes.length]
noteOf(instr, index) ==
    LET notes == INSTRUMENT_PRESETS[instr].notes
    IN  notes[(index % Len(notes)) + 1]

\* The state processPhysics works on: lastFingerData, stringDebounceRef, the
\* engine, and what the frame did so far (updates, triggers, threw).
\* triggerString(index, now) of the closure whose instrument is instr.
triggerString(P, index, now, instr, who) ==
    LET note == noteOf(instr, index)
        r == playNote(P.e, note)
    IN  [P EXCEPT !.e = r.e,
                  !.threw = r.threw,
                  !.triggers = Append(@, [s |-> index, time |-> now, note |-> note,
                                          hand |-> who.hand, tip |-> who.tip])]

\* The body of the loop over s, for one s
stringStep(P, s, lastX, x, y, now, instr, who) ==
    IF crossed(lastX, x, stringX(s)) /\ inYZone(y)
       /\ debounceElapsed(P.deb, s, now)
    THEN LET P1 == triggerString(P, s, now, instr, who)
         IN  IF P1.threw THEN P1
             ELSE [P1 EXCEPT !.deb = markTriggered(P1.deb, s, now)]
    ELSE P

RECURSIVE stringLoop(_, _, _, _, _, _, _, _)
\* for (let s = 0; s < NUM_STRINGS; s++)
stringLoop(P, s, lastX, x, y, now, instr, who) ==
    IF s >= NUM_STRINGS \/ P.threw
    THEN P
    ELSE stringLoop(stringStep(P, s, lastX, x, y, now, instr, who),
                    s + 1, lastX, x, y, now, instr, who)

\* What one per-finger update did, for the record of the frame.  crossed:
\* the strings for which the loop over s found the crossing condition true.
updateRecord(P0, P1, handIndex, tip, open, lastData, x, y, now) ==
    [hand |-> handIndex, tip |-> tip, open |-> open, last |-> lastData,
     x |-> x, y |-> y, time |-> now,
     debBefore |-> P0.deb, debAfter |-> P1.deb,
     trigStart |-> Len(P0.triggers),
     fired |-> {P1.triggers[k].s : k \in (Len(P0.triggers) + 1) .. Len(P1.triggers)},
     crossed |-> IF open /\ lastData.seen
                    /\ velocityExceeds(x - lastData.x, now - lastData.time)
                 THEN {s \in Strings : crossed(lastData.x, x, stringX(s))}
                 ELSE {},
     nFired |-> Len(P1.triggers) - Len(P0.triggers)]

\* The callback of fingers.forEach, for one finger of one hand.
fingerUpdate(P, landmarks, handIndex, finger, now, instr) ==
    LET o == isFingerOpen(landmarks, finger.tip, finger.pip, wristIdx)
        rawX == landmarks[finger.tip].x
        x == Unit - rawX
        y == landmarks[finger.tip].y
        fingerId == fingerIdOf(handIndex, finger.tip)
        lastData == P.last[fingerId]
        who == [hand |-> handIndex, tip |-> finger.tip]
        track(Q) == [Q EXCEPT !.last[fingerId] = [seen |-> TRUE, x |-> x, time |-> now]]
    IN  IF o.threw THEN [P EXCEPT !.threw = TRUE]
        ELSE IF ~o.open
        THEN LET P1 == track(P)
             IN  [P1 EXCEPT !.updates = Append(@,
                     updateRecord(P, P1, handIndex, finger.tip, FALSE, lastData, x, y, now))]
        ELSE LET P1 == IF lastData.seen
                          /\ velocityExceeds(x - lastData.x, now - lastData.time)
                       THEN stringLoop(P, 0, lastData.x, x, y, now, instr, who)
                       ELSE P
             IN  IF P1.threw THEN P1
                 ELSE LET P2 == track(P1)
                      IN  [P2 EXCEPT !.updates = Append(@,
                              updateRecord(P, P2, handIndex, finger.tip, TRUE,
                                           lastData, x, y, now))]

RECURSIVE fingerLoop(_, _, _, _, _, _)
\* fingers.forEach, from the i-th finger on
fingerLoop(P, landmarks, handIndex, i, now, instr) ==
    IF i > Len(fingers) \/ P.threw
    THEN P
    ELSE fingerLoop(fingerUpdate(P, landmarks, handIndex, fingers[i], now, instr),
                    landmarks, handIndex, i + 1, now, instr)

RECURSIVE handLoop(_, _, _, _, _)
\* landmarksArray.forEach, from the h-th hand on (handIndex = h - 1)
handLoop(P, landmarksArray, h, now, instr) ==
    IF h > Len(landmarksArray) \/ P.threw
    THEN P
    ELSE handLoop(fingerLoop(P, landmarksArray[h], h - 1, 1, now, instr),
                  landmarksArray, h + 1, now, instr)

\* A physics step that forgets every tracked finger when it is given no hand.
processPhysicsForgetting(P, landmarksArray, now, instr) ==
    IF landmarksArray = << >>
    THEN [P EXCEPT !.last = [f \in FingerIds |-> NoData]]
    ELSE handLoop(P, landmarksArray, 1, now, instr)

processPhysics(P, landmarksArray, now, instr) ==
    handLoop(P, landmarksArray, 1, now, instr)

\* drawFrame reads every landmark of every hand it is given (drawPoint):
\* it throws on a hand that lacks one.
drawFrameThrows(landmarksArray) ==
    \E h \in DOMAIN landmarksArray :
        \E i \in DOMAIN landmarksArray[h] : ~landmarksArray[h][i].defined

\* ------------------------------------------------------------------ state
VARIABLES
    loading,          \* App state: the hand landmarker is not loaded yet
    isPlaying,        \* App state
    errorMsg,         \* App state: an error overlay is shown
    instrument,       \* App state: the preset of the current render
    startCall,        \* where the startCamera call stands
    loop,             \* the frame loop: its scheduled callback and its closure
    videoPaused,      \* video.paused || video.ended
    lastFingerData,   \* lastFingerData.current
    stringDebounceRef,\* stringDebounceRef.current
    engine,           \* the AudioEngine object
    inits,            \* the init() calls made, each with how it ended
    now,              \* timestamp of the latest frame callback (ms)
    frames,           \* frame callbacks run
    clicks,           \* clicks made
    calls,            \* calls made on the engine's interface (SpecEngine)
    frame,            \* what the latest gameLoop call was given and did
    accepted,         \* per string: the latest trigger event emitted for it
    call,             \* what the latest engine call was given and did
    passLog           \* per frame of SpecPass: what hand 0 was seen doing

vars ==
    << loading, isPlaying, errorMsg, instrument, startCall, loop, videoPaused,
       lastFingerData, stringDebounceRef, engine, inits, now, frames, clicks,
       calls, frame, accepted, call, passLog >>

appVars == << loading, isPlaying, errorMsg, instrument, startCall, loop, videoPaused >>
physicsVars ==
    << lastFingerData, stringDebounceRef, now, frames, frame, accepted, passLog >>

NoFrame ==
    [ran |-> FALSE, outcome |-> "none", time |-> 0, prevTime |-> 0,
     landmarks |-> << >>,
     lastBefore |-> [f \in FingerIds |-> NoData],
     debBefore |-> [s \in Strings |-> 0],
     accBefore |-> [s \in Strings |-> [ever |-> FALSE, time |-> 0]],
     instrument |-> InitialPreset,
     updates |-> << >>, triggers |-> << >>, threw |-> FALSE]

NoCall ==
    [op |-> "none", note |-> "", threw |-> FALSE, outcome |-> "none",
     before |-> newAudioEngine(INSTRUMENT_PRESETS[InitialPreset].config),
     after |-> newAudioEngine(INSTRUMENT_PRESETS[InitialPreset].config),
     initsBefore |-> << >>]

\* The state once App is mounted: the first effect has constructed the engine
\* with the first preset's config, the second has called updateConfig with
\* the same config (no context yet), the refs hold their initial values.
Init ==
    /\ loading = TRUE
    /\ isPlaying = FALSE
    /\ errorMsg = FALSE
    /\ instrument = InitialPreset
    /\ startCall = "idle"
    /\ loop = [state |-> "off", instrument |-> InitialPreset]
    /\ videoPaused = TRUE
    /\ lastFingerData = [f \in FingerIds |-> NoData]
    /\ stringDebounceRef = [s \in Strings |-> 0]
    /\ engine = updateConfig(newAudioEngine(INSTRUMENT_PRESETS[InitialPreset].config),
                             INSTRUMENT_PRESETS[InitialPreset].config)
    /\ inits = << >>
    /\ now = 0
    /\ frames = 0
    /\ clicks = 0
    /\ calls = 0
    /\ frame = NoFrame
    /\ accepted = [s \in Strings |-> [ever |-> FALSE, time |-> 0]]
    /\ call = NoCall
    /\ passLog = << >>

\* ----------------------------------------------------------- frame inputs
LandmarkIds ==
    {wristIdx} \cup {fingers[i].tip : i \in DOMAIN fingers}
               \cup {fingers[i].pip : i \in DOMAIN fingers}

\* A hand whose index fingertip shows at mirrored position px (raw x is
\* Unit - px) and height y, the other tips one step further each; the wrist a
\* tenth below the tips; the PIP of a finger in open halfway between wrist and
\* tip (extended), of any other finger a tenth beyond the tip (curled); the
\* landmarks in missing absent.
Hand(px, y, open, missing) ==
    [i \in LandmarkIds |->
        IF i \in missing THEN Undefined
        ELSE IF i = wristIdx THEN Point(Unit - px, y + Unit \div 10)
        ELSE LET k == CHOOSE j \in DOMAIN fingers : i \in {fingers[j].tip, fingers[j].pip}
                 rawX == (Unit - px) + (k - 1)
             IN  IF i = fingers[k].tip THEN Point(rawX, y)
                 ELSE IF fingers[k].tip \in open
                      THEN Point(rawX, y + Unit \div 20)
                      ELSE Point(rawX, y - Unit \div 10)]

\* 0.05, just left of string 0, string 0 (1/13) and 0.2
Xs == {Unit \div 20, stringX(0) - 1, stringX(0), Unit \div 5}

\* 0.5
YMid == Unit \div 2

AllTips == {fingers[i].tip : i \in DOMAIN fingers}

GoodHands ==
    {Hand(px, YMid, {8}, {}) : px \in Xs}
      \cup {Hand(px, YMid, {}, {}) : px \in Xs}
      \cup {Hand(px, YMid, {8, 12}, {}) : px \in Xs}
      \cup {Hand(px, Unit \div 10, {8}, {}) : px \in Xs}
      \cup {Hand(px, (9 * Unit) \div 10, {8}, {}) : px \in Xs}

BadHands ==
    {Hand(Unit \div 5, YMid, {8}, {i}) : i \in {0, 6, 20}}

TwoHands ==
    {<< Hand(a, YMid, {8}, {}), Hand(b, YMid, {8}, {}) >> :
        a \in {Unit \div 20, Unit \div 5}, b \in {Unit \div 20, Unit \div 5}}
      \cup {<< Hand(Unit \div 5, YMid, {8}, {}), Hand(Unit \div 5, YMid, {8}, {0}) >>}

Detected(ls) == [kind |-> "result", landmarks |-> ls]

\* What detectForVideo does in a frame: throws, is not called (the video has
\* no size yet: result stays null), or returns the hands it sees.
PluckFrames ==
    {[kind |-> "throws", landmarks |-> << >>], [kind |-> "null", landmarks |-> << >>],
     Detected(<< >>)}
      \cup {Detected(<< h >>) : h \in GoodHands \cup BadHands}
      \cup {Detected(ls) : ls \in TwoHands}

AppFrames ==
    {[kind |-> "throws", landmarks |-> << >>], Detected(<< >>)}
      \cup {Detected(<< Hand(px, YMid, {8}, {}) >>) : px \in {Unit \div 20, Unit \div 5}}
      \cup {Detected(<< Hand(Unit \div 5, YMid, {8}, {0}) >>)}

\* One hand with the index finger OPEN: left of string 0, just left of it, on
\* it, just right of it, on string 1 and right of string 1.
PassXs ==
    {Unit \div 20, stringX(0) - 1, stringX(0), stringX(0) + 1, stringX(1),
     Unit \div 5}

PassFrames == {Detected(<< Hand(px, YMid, {8}, {}) >>) : px \in PassXs}

\* Milliseconds between two frame callbacks: inside and outside the debounce
\* window.
TimeSteps == {10, 50}

\* ---------------------------------------------------------------- actions
\* initVision resolves: handLandmarkerRef is set, loading ends.
VisionLoaded ==
    /\ loading
    /\ ~errorMsg
    /\ loading' = FALSE
    /\ UNCHANGED << isPlaying, errorMsg, instrument, startCall, loop, videoPaused,
                    engine, inits, clicks, calls, call >>
    /\ UNCHANGED physicsVars

\* How a settled init() call is recorded: its outcome and the context's state
\* when it settled.
initRecord(outcome, e) == [outcome |-> outcome, ctx |-> e.ctx]

\* How startCamera continues after `await audioEngine.init()`.
afterInit(outcome) ==
    IF outcome = "resolved" THEN "awaitMedia"
    ELSE IF outcome = "rejected" THEN "failed"
    ELSE "awaitInit"

\* A click on ENTER: startCamera up to its first suspension.  The handler is
\* the one of the current render: gameLoop, processPhysics and triggerString
\* of that render close over its instrument.
ClickEnter ==
    /\ ~loading /\ ~isPlaying /\ ~errorMsg
    /\ startCall = "idle"
    /\ clicks < MaxClicks
    /\ \E ctxState \in {"running", "suspended", "throws"} :
         LET r == init(engine, ctxState)
         IN  /\ engine' = r.e
             /\ inits' = Append(inits, initRecord(r.outcome, r.e))
             /\ startCall' = afterInit(r.outcome)
             /\ errorMsg' = (r.outcome = "rejected")
    /\ loop' = [state |-> "off", instrument |-> instrument]
    /\ clicks' = clicks + 1
    /\ UNCHANGED << loading, isPlaying, instrument, videoPaused, calls, call >>
    /\ UNCHANGED physicsVars

\* The outstanding ctx.resume() settles: resolved, the context runs and every
\* init awaiting it returns; rejected, every init awaiting it throws.
settleInits(is, outcome, e) ==
    [i \in DOMAIN is |->
        IF is[i].outcome = "pending" THEN initRecord(outcome, e) ELSE is[i]]

ResumeSettles ==
    /\ engine.resumeRequested
    /\ engine.ctx = "suspended"
    /\ \E ok \in BOOLEAN :
         LET e1 == [engine EXCEPT !.ctx = IF ok THEN "running" ELSE @,
                                  !.resumeRequested = FALSE]
             outcome == IF ok THEN "resolved" ELSE "rejected"
         IN  /\ engine' = e1
             /\ inits' = settleInits(inits, outcome, e1)
             /\ startCall' = IF startCall = "awaitInit" THEN afterInit(outcome)
                             ELSE startCall
             /\ errorMsg' = (errorMsg \/ (startCall = "awaitInit" /\ ~ok))
    /\ UNCHANGED << loading, isPlaying, instrument, loop, videoPaused, clicks,
                    calls, call >>
    /\ UNCHANGED physicsVars

\* getUserMedia settles: the stream becomes the video's source and
\* onloadeddata is set, or the catch block shows the error.
MediaSettles ==
    /\ startCall = "awaitMedia"
    /\ \E ok \in BOOLEAN :
         /\ startCall' = IF ok THEN "awaitLoaded" ELSE "failed"
         /\ errorMsg' = ~ok
    /\ UNCHANGED << loading, isPlaying, instrument, loop, videoPaused, engine,
                    inits, clicks, calls, call >>
    /\ UNCHANGED physicsVars

\* video.onloadeddata: play, setIsPlaying(true), schedule gameLoop.
LoadedData ==
    /\ startCall = "awaitLoaded"
    /\ startCall' = "done"
    /\ isPlaying' = TRUE
    /\ videoPaused' = FALSE
    /\ loop' = [loop EXCEPT !.state = "armed"]
    /\ UNCHANGED << loading, errorMsg, instrument, engine, inits, clicks, calls, call >>
    /\ UNCHANGED physicsVars

\* A preset change that also resets the trigger engine's refs.
handleSelectPresetResetting(preset) ==
    /\ clicks < MaxClicks
    /\ instrument' = preset
    /\ engine' = IF preset # instrument
                 THEN updateConfig(engine, INSTRUMENT_PRESETS[preset].config)
                 ELSE engine
    /\ clicks' = clicks + 1
    /\ lastFingerData' = [f \in FingerIds |-> NoData]
    /\ stringDebounceRef' = [s \in Strings |-> 0]
    /\ UNCHANGED << loading, isPlaying, errorMsg, startCall, loop, videoPaused,
                    inits, calls, call, now, frames, frame, accepted, passLog >>

\* handleSelectPreset(preset), the render it causes and the effect of that
\* render: audioEngine.updateConfig(instrument.config).
handleSelectPreset(preset) ==
    /\ clicks < MaxClicks
    /\ instrument' = preset
    /\ engine' = IF preset # instrument
                 THEN updateConfig(engine, INSTRUMENT_PRESETS[preset].config)
                 ELSE engine
    /\ clicks' = clicks + 1
    /\ UNCHANGED << loading, isPlaying, errorMsg, startCall, loop, videoPaused,
                    inits, calls, call >>
    /\ UNCHANGED physicsVars

\* The preset buttons the model clicks: one per note list of the bank, and
\* the preset with sustain 1.0.
ClickedPresets == {"harp", "bass", "koto", "scifi", "organ"}

SelectPreset ==
    \E preset \in ClickedPresets : handleSelectPreset(preset)

\* The camera stream ends or the video is paused.
VideoPauses ==
    /\ isPlaying
    /\ ~videoPaused
    /\ videoPaused' = TRUE
    /\ UNCHANGED << loading, isPlaying, errorMsg, instrument, startCall, loop,
                    engine, inits, clicks, calls, call >>
    /\ UNCHANGED physicsVars

\* The latest trigger event per string, after a frame's triggers.
acceptedAfter(acc, triggers, t) ==
    [s \in Strings |->
        IF \E k \in DOMAIN triggers : triggers[k].s = s
        THEN [ever |-> TRUE, time |-> t]
        ELSE acc[s]]

\* What processPhysics leaves behind in a frame that reaches the physics
\* step: `if (result && result.landmarks) processPhysics(...)`.
physicsStep(t, det) ==
    LET P0 == [last |-> lastFingerData, deb |-> stringDebounceRef,
               e |-> engine, updates |-> << >>, triggers |-> << >>,
               threw |-> FALSE]
    IN  IF det.kind = "result"
        THEN processPhysics(P0, det.landmarks, t, loop.instrument)
        ELSE P0

\* A guard that never stops the loop.
stopGuardNever(paused) == FALSE

\* gameLoop's guard, `if (!video || !landmarker || video.paused ||
\* video.ended) return`: both refs are set once the loop is armed, paused
\* stands for video.paused || video.ended.
stopGuard(paused) == paused

\* One call of gameLoop, the frame callback, at timestamp t with what
\* detectForVideo did (det).  An exception of processPhysics or drawFrame
\* leaves gameLoop before it schedules the next frame.
gameLoop(t, det) ==
    IF stopGuard(videoPaused)
    THEN /\ loop' = [loop EXCEPT !.state = "stopped"]
         /\ frame' = [NoFrame EXCEPT !.outcome = "returned", !.time = t,
                                     !.prevTime = now]
         /\ UNCHANGED << lastFingerData, stringDebounceRef, engine, accepted >>
    ELSE \E P1 \in {physicsStep(t, det)} :
         \E threw \in {P1.threw \/ drawFrameThrows(det.landmarks)} :
             /\ lastFingerData' = P1.last
             /\ stringDebounceRef' = P1.deb
             /\ engine' = P1.e
             /\ accepted' = acceptedAfter(accepted, P1.triggers, t)
             /\ loop' = [loop EXCEPT !.state = IF threw THEN "crashed" ELSE "armed"]
             /\ frame' = [ran |-> det.kind = "result",
                          outcome |-> IF threw THEN "threw" ELSE "rescheduled",
                          time |-> t, prevTime |-> now,
                          landmarks |-> det.landmarks,
                          lastBefore |-> lastFingerData,
                          debBefore |-> stringDebounceRef,
                          accBefore |-> accepted,
                          instrument |-> instrument,
                          updates |-> P1.updates, triggers |-> P1.triggers,
                          threw |-> threw]

GameLoop(inputs) ==
    /\ loop.state = "armed"
    /\ frames < MaxFrames
    /\ \E d \in TimeSteps, det \in inputs :
         /\ now' = now + d
         /\ gameLoop(now + d, det)
    /\ frames' = frames + 1
    /\ UNCHANGED << loading, isPlaying, errorMsg, instrument, startCall,
                    videoPaused, inits, clicks, calls, call >>

PluckFrame == GameLoop(PluckFrames) /\ UNCHANGED passLog
AppFrame == GameLoop(AppFrames) /\ UNCHANGED passLog

\* A frame of a hand whose index finger is OPEN, somewhere along the strings;
\* what the frame saw and the strings its index finger crossed are logged.
PassFrame ==
    /\ GameLoop(PassFrames)
    /\ passLog' = Append(passLog, [time |-> frame'.time,
                                   hand |-> frame'.landmarks[1],
                                   crossed |-> frame'.updates[1].crossed])

\* ------------------------------------------- the engine's own interface
\* Calls on the AudioEngine object by any caller, in any order.
callRecord(op, note, e0, e1, threw, outcome) ==
    [op |-> op, note |-> note, threw |-> threw, outcome |-> outcome,
     before |-> e0, after |-> e1, initsBefore |-> inits]

engineOnly == << loading, isPlaying, errorMsg, instrument, loop, videoPaused,
                 lastFingerData, stringDebounceRef, now, frames, frame,
                 accepted, clicks, passLog >>

CallInit ==
    /\ calls < MaxCalls
    /\ \E ctxState \in {"running", "suspended", "throws"} :
         \E r \in {init(engine, ctxState)} :
             /\ engine' = r.e
             /\ inits' = Append(inits, initRecord(r.outcome, r.e))
             /\ call' = callRecord("init", "", engine, r.e,
                                   r.outcome = "rejected", r.outcome)
    /\ calls' = calls + 1
    /\ UNCHANGED startCall
    /\ UNCHANGED engineOnly

\* Note names given to playNote: two of the table, one unknown, and two that
\* every object inherits.
NoteInputs == {"C4", "A#3", "H2", "constructor", "__proto__"}

CallPlayNote ==
    /\ calls < MaxCalls
    /\ \E note \in NoteInputs :
         \E r \in {playNote(engine, note)} :
             /\ engine' = r.e
             /\ call' = callRecord("playNote", note, engine, r.e, r.threw,
                                   IF r.threw THEN "threw" ELSE "returned")
    /\ calls' = calls + 1
    /\ UNCHANGED << startCall, inits >>
    /\ UNCHANGED engineOnly

CallUpdateConfig ==
    /\ calls < MaxCalls
    /\ \E preset \in ClickedPresets :
         \E e1 \in {updateConfig(engine, INSTRUMENT_PRESETS[preset].config)} :
             /\ engine' = e1
             /\ call' = callRecord("updateConfig", "", engine, e1, FALSE, "returned")
    /\ calls' = calls + 1
    /\ UNCHANGED << startCall, inits >>
    /\ UNCHANGED engineOnly

\* Milliseconds the audio clock advances by in one step.
ClockSteps == {300, 2000}

\* The audio clock of a running context advances; the oscillators whose stop
\* time has passed end.
AudioClockAdvances ==
    /\ calls < MaxCalls
    /\ engine.ctx = "running"
    /\ \E dt \in ClockSteps :
         engine' = [engine EXCEPT !.currentTime = @ + dt,
                                  !.voices = retire(@, engine.currentTime + dt)]
    /\ calls' = calls + 1
    /\ UNCHANGED << startCall, inits, call >>
    /\ UNCHANGED engineOnly

\* The stop times of the voices still wired.
pendingStops(voices) ==
    {voices[i].stop : i \in {j \in DOMAIN voices : voices[j].wired}}

\* The audio clock of a running context advances by itself (calls on the
\* engine are not needed for it) and reaches the earliest stop time of the
\* wired voices: the oscillators stopping then end.
AudioClockRuns ==
    /\ engine.ctx = "running"
    /\ pendingStops(engine.voices) # {}
    /\ \E t \in {u \in pendingStops(engine.voices) :
                    \A w \in pendingStops(engine.voices) : u <= w} :
         engine' = [engine EXCEPT !.currentTime = t,
                                  !.voices = retire(@, t)]
    /\ UNCHANGED << startCall, inits, call, calls >>
    /\ UNCHANGED engineOnly

\* ---------------------------------------------------------- specifications
\* The synthesis engine under any sequence of calls.
NextEngine ==
    \/ CallInit
    \/ ResumeSettles
    \/ CallPlayNote
    \/ CallUpdateConfig
    \/ AudioClockAdvances

SpecEngine == Init /\ [][NextEngine]_vars


\* The synthesis engine in time: the clock of a running context keeps
\* advancing, and a promise of ctx.resume() settles.
NextEngineLive ==
    \/ CallInit
    \/ ResumeSettles
    \/ CallPlayNote
    \/ CallUpdateConfig
    \/ AudioClockRuns

SpecEngineLive ==
    /\ Init
    /\ [][NextEngineLive]_vars
    /\ WF_vars(AudioClockRuns)
    /\ WF_vars(ResumeSettles)

\* The trigger engine: the application is started and frames arrive.
NextPluck ==
    \/ VisionLoaded
    \/ ClickEnter
    \/ ResumeSettles
    \/ MediaSettles
    \/ LoadedData
    \/ PluckFrame

SpecPluck == Init /\ [][NextPluck]_vars

\* One finger moving along the strings, frame after frame.
NextPass ==
    \/ VisionLoaded
    \/ ClickEnter
    \/ ResumeSettles
    \/ MediaSettles
    \/ LoadedData
    \/ PassFrame

SpecPass == Init /\ [][NextPass]_vars

\* The application: clicks, the camera and the frame loop.
Next ==
    \/ VisionLoaded
    \/ ClickEnter
    \/ ResumeSettles
    \/ MediaSettles
    \/ LoadedData
    \/ SelectPreset
    \/ VideoPauses
    \/ AppFrame

Spec == Init /\ [][Next]_vars

\* ------------------------------------------------------------------ claims
\* What a claim says of a per-finger update u of the latest frame is stated
\* on what the frame was given (frame.landmarks, frame.time) and on the state
\* it started from (frame.lastBefore, frame.accBefore), not on what the
\* update computed.
GivenHand(u) == frame.landmarks[u.hand + 1]
GivenX(u) == Unit - GivenHand(u)[u.tip].x
GivenY(u) == GivenHand(u)[u.tip].y
TrackedBefore(u) == frame.lastBefore[u.hand * 100 + u.tip]

\* OPEN: the wrist-to-tip distance exceeds 0.9 times the wrist-to-PIP distance.
ClassifiedOpen(u) ==
    LET w == GivenHand(u)[0]
        q == GivenHand(u)[u.tip - 2]
        t == GivenHand(u)[u.tip]
    IN  100 * ((t.x - w.x) * (t.x - w.x) + (t.y - w.y) * (t.y - w.y))
          > 81 * ((q.x - w.x) * (q.x - w.x) + (q.y - w.y) * (q.y - w.y))

\* |x - last.x| / dt > 0.00015 per millisecond
AboveThreshold(u) ==
    /\ TrackedBefore(u).seen
    /\ frame.time - TrackedBefore(u).time > 0
    /\ Abs(GivenX(u) - TrackedBefore(u).x) * 100000
         > 15 * Unit * (frame.time - TrackedBefore(u).time)

\* 0.1 < y < 0.9
InBand(u) == 10 * GivenY(u) > Unit /\ 10 * GivenY(u) < 9 * Unit

\* The timestamp the debounce of string s is measured from when update u
\* runs: the time of the latest trigger event for s (in this frame before u,
\* or in an earlier frame), and 0 while s has never been triggered.
LastTrigger(u, s) ==
    IF \E j \in 1 .. u.trigStart : frame.triggers[j].s = s
    THEN frame.time
    ELSE IF frame.accBefore[s].ever THEN frame.accBefore[s].time ELSE 0

DebounceOver(u, s) == frame.time - LastTrigger(u, s) > 40

\* The string lies between last x and current x, last x excluded and current
\* x included (arrival on the string counts, departure from it does not).
Reached(u, s) ==
    \/ TrackedBefore(u).x < stringX(s) /\ stringX(s) <= GivenX(u)
    \/ TrackedBefore(u).x > stringX(s) /\ stringX(s) >= GivenX(u)

\* The string lies strictly between last x and current x.
StrictlyBetween(u, s) ==
    \/ TrackedBefore(u).x < stringX(s) /\ stringX(s) < GivenX(u)
    \/ TrackedBefore(u).x > stringX(s) /\ stringX(s) > GivenX(u)

\* A frame whose physics step ran to its end updated every finger of every
\* hand once, in order.
EveryFingerUpdated ==
    (frame.ran /\ ~frame.threw) =>
        /\ Len(frame.updates) = 4 * Len(frame.landmarks)
        /\ \A k \in DOMAIN frame.updates :
             /\ frame.updates[k].hand = (k - 1) \div 4
             /\ frame.updates[k].tip = 8 + 4 * ((k - 1) % 4)

\* The trigger events update u emitted, in order.
TriggersOf(u) ==
    [j \in 1 .. u.nFired |-> frame.triggers[u.trigStart + j]]

\* C1 (as amended): in every per-finger update of an OPEN finger above the
\* velocity threshold, string s is triggered exactly when it lies between last
\* x and current x (last x excluded, current x included), y is strictly
\* between 0.1 and 0.9 and more than 40 ms have passed since the string's
\* debounce timestamp (its latest trigger, 0 before the first); every such
\* string is triggered once, at the frame's timestamp.
C1_TriggerIffReached ==
    /\ EveryFingerUpdated
    /\ \A k \in DOMAIN frame.updates :
         LET u == frame.updates[k]
         IN  (ClassifiedOpen(u) /\ AboveThreshold(u)) =>
                /\ \A s \in Strings :
                     (s \in u.fired) <=>
                        (Reached(u, s) /\ InBand(u) /\ DebounceOver(u, s))
                /\ u.nFired = Cardinality(u.fired)
                /\ \A j \in 1 .. u.nFired : TriggersOf(u)[j].time = frame.time

\* C1 witness: an OPEN finger above the threshold arrives exactly on a string
\* and triggers it, and passes another string in the same update.
C1_Witness ==
    \E k \in DOMAIN frame.updates :
        LET u == frame.updates[k]
        IN  /\ ClassifiedOpen(u) /\ AboveThreshold(u)
            /\ \E s \in u.fired : GivenX(u) = stringX(s)
            /\ \E s \in u.fired : StrictlyBetween(u, s)

\* C1 as stated: the string is triggered exactly when it lies strictly between
\* last x and current x (and y and debounce allow it).
C1_Original ==
    \A k \in DOMAIN frame.updates :
        LET u == frame.updates[k]
        IN  (ClassifiedOpen(u) /\ AboveThreshold(u)) =>
                \A s \in Strings :
                    (s \in u.fired) <=>
                        (StrictlyBetween(u, s) /\ InBand(u) /\ DebounceOver(u, s))

\* The scenario of C2: an OPEN finger tracked at x = 0.05 is seen at x = 0.20
\* within 10 ms, at y = 0.5, no string being inside its debounce window.
C2_Scenario(u) ==
    /\ ClassifiedOpen(u)
    /\ TrackedBefore(u).seen
    /\ TrackedBefore(u).x = Unit \div 20
    /\ GivenX(u) = Unit \div 5
    /\ frame.time - TrackedBefore(u).time \in 1 .. 10
    /\ GivenY(u) = Unit \div 2
    /\ \A s \in Strings : DebounceOver(u, s)

\* The note list triggerString of the running loop reads.
LoopNotes == INSTRUMENT_PRESETS[loop.instrument].notes

\* C2 (as amended): with 12 strings, in the scenario the finger passes strings
\* 0 (x = 1/13) and 1 (x = 2/13): its update emits exactly two trigger events,
\* for string 0 and then string 1, played as notes[0] and notes[1] of the
\* instrument the running frame loop reads.
C2_TwoStringsCrossed ==
    \A k \in DOMAIN frame.updates :
        LET u == frame.updates[k]
        IN  C2_Scenario(u) =>
                /\ NUM_STRINGS = 12
                /\ u.nFired = 2
                /\ TriggersOf(u)[1].s = 0 /\ TriggersOf(u)[1].note = LoopNotes[1]
                /\ TriggersOf(u)[2].s = 1 /\ TriggersOf(u)[2].note = LoopNotes[2]

\* C2 witness: the scenario happens.
C2_Witness ==
    \E k \in DOMAIN frame.updates :
        C2_Scenario(frame.updates[k]) /\ frame.updates[k].fired = {0, 1}

\* C2 as stated: the scenario emits exactly one trigger event, for string 0,
\* played as notes[0].
C2_Original ==
    \A k \in DOMAIN frame.updates :
        LET u == frame.updates[k]
        IN  C2_Scenario(u) =>
                /\ u.nFired = 1
                /\ TriggersOf(u)[1].s = 0 /\ TriggersOf(u)[1].note = LoopNotes[1]

\* C3: debounce is per string.  An update changes the debounce timestamp of no
\* string but those it triggers, and a string that an OPEN finger above the
\* threshold reaches inside the y band is triggered whenever more than 40 ms
\* have passed since that string's own latest trigger (0 before its first),
\* whatever other strings were triggered in this frame or within 40 ms.
C3_DebouncePerString ==
    \A k \in DOMAIN frame.updates :
        LET u == frame.updates[k]
        IN  /\ \A j \in Strings :
                 u.debAfter[j] # u.debBefore[j] => j \in u.fired
            /\ (ClassifiedOpen(u) /\ AboveThreshold(u) /\ InBand(u)) =>
                 \A j \in Strings :
                     (Reached(u, j) /\ DebounceOver(u, j)) => j \in u.fired

\* C3 witness: string j is triggered within 40 ms of a trigger of another
\* string i in an earlier frame.
C3_Witness ==
    \E k \in DOMAIN frame.updates :
        LET u == frame.updates[k]
        IN  \E i \in Strings, j \in u.fired :
                /\ i # j
                /\ frame.accBefore[i].ever
                /\ frame.time - frame.accBefore[i].time <= 40
                /\ frame.time - frame.accBefore[i].time > 0

\* C4: a finger classified CLOSED emits no trigger in its update and changes
\* no debounce timestamp, and its tracked position becomes (1 - raw x, now).
C4_ClosedNeverTriggers ==
    \A k \in DOMAIN frame.updates :
        LET u == frame.updates[k]
        IN  ~ClassifiedOpen(u) =>
                /\ u.nFired = 0
                /\ \A j \in DOMAIN frame.triggers :
                     ~(frame.triggers[j].hand = u.hand /\ frame.triggers[j].tip = u.tip)
                /\ u.debAfter = u.debBefore
                /\ lastFingerData[u.hand * 100 + u.tip]
                     = [seen |-> TRUE, x |-> Unit - GivenHand(u)[u.tip].x,
                        time |-> frame.time]

\* C4 witness: a CLOSED finger moves above the threshold over a string inside
\* the y band whose debounce window is over.
C4_Witness ==
    \E k \in DOMAIN frame.updates :
        LET u == frame.updates[k]
        IN  /\ ~ClassifiedOpen(u)
            /\ AboveThreshold(u)
            /\ InBand(u)
            /\ \E s \in Strings : Reached(u, s) /\ DebounceOver(u, s)

\* C5 as stated: every trigger event of a frame is played as
\* notes[stringIndex mod notes.length] of the instrument active in that frame
\* (the preset selected last, whose config the engine uses).
C5_Original ==
    \A j \in DOMAIN frame.triggers :
        LET notes == INSTRUMENT_PRESETS[frame.instrument].notes
        IN  frame.triggers[j].note = notes[(frame.triggers[j].s % Len(notes)) + 1]

\* No init call has returned successfully before the latest call.
NoInitCompleted(is) ==
    \A i \in DOMAIN is : is[i].outcome # "resolved"

\* C6 as stated: a playNote call made before any init has completed is a
\* no-op: it leaves the engine as it was (no voice, nothing scheduled) and
\* does not throw.
C6_Original ==
    (call.op = "playNote" /\ NoInitCompleted(call.initsBefore)) =>
        /\ call.after = call.before
        /\ ~call.threw

\* C7 as stated: an init call that returns successfully leaves the audio
\* context running.
C7_Original ==
    \A i \in DOMAIN inits :
        inits[i].outcome = "resolved" => inits[i].ctx = "running"

\* An init call has failed, no init call made after it has succeeded, and
\* none is still awaiting the context.
InitFailedLast(is) ==
    /\ \E i \in DOMAIN is :
          /\ is[i].outcome = "rejected"
          /\ \A j \in DOMAIN is : j > i => is[j].outcome # "resolved"
    /\ \A j \in DOMAIN is : is[j].outcome # "pending"

\* C8 as stated: between a failed init and the next successful one, playNote
\* allocates no voice.
C8_Original ==
    (call.op = "playNote" /\ InitFailedLast(call.initsBefore)) =>
        Len(call.after.voices) = Len(call.before.voices)

\* C9 as stated: playNote never throws, and the voice it creates sounds at the
\* table's frequency for a name of the table and at 440 Hz for any other.
C9_Original ==
    call.op = "playNote" =>
        /\ ~call.threw
        /\ Len(call.after.voices) > Len(call.before.voices) =>
             call.after.voices[Len(call.after.voices)].freq
               = IF call.note \in DOMAIN noteMap THEN noteMap[call.note] ELSE 44000

\* C10 as stated: no exception leaves gameLoop, and a frame that reached the
\* physics step leaves the next frame callback scheduled.
C10_Original ==
    /\ frame.outcome # "threw"
    /\ loop.state # "crashed"
    /\ frame.ran => loop.state = "armed"


\* C11 (as stated): every voice created by playNote is eventually torn down;
\* once the calls on the engine have ceased, the set of wired voices becomes
\* empty and stays empty.
C11_Original ==
    <>[](\A i \in DOMAIN engine.voices : ~engine.voices[i].wired)

\* What playNote fixed of a voice when it created it: everything but whether
\* the voice is still wired.
Shape(v) == [v EXCEPT !.wired = TRUE]

\* C12: no step of the engine, updateConfig in particular, alters the
\* waveform, detune, filter cutoff, envelope schedule or stop time of a voice
\* that exists; a voice a step creates has those of the config that was
\* active before the step, the one of the latest updateConfig.
C12_NotRetroactive ==
    [][/\ \A i \in DOMAIN engine.voices :
             /\ i \in DOMAIN engine'.voices
             /\ Shape(engine'.voices[i]) = Shape(engine.voices[i])
       /\ \A i \in DOMAIN engine'.voices \ DOMAIN engine.voices :
             LET v == engine'.voices[i]
                 c == engine.config
             IN  /\ v.waveform = c.waveform
                 /\ v.detune = c.detune
                 /\ v.filterFreq = c.filterFreq
                 /\ v.stop = v.start + c.attack + c.decay + c.release + 100
                 /\ v.envelope[4].time = v.start + c.attack + c.decay + c.release
                 /\ v.envelope[2].value = 1000 * c.gain]_vars

\* C12 witness: updateConfig has been called while a voice created under
\* another config is sounding.
C12_Witness ==
    /\ call.op = "updateConfig"
    /\ \E i \in DOMAIN engine.voices :
          /\ engine.voices[i].wired
          /\ engine.voices[i].waveform # engine.config.waveform
          /\ i \in DOMAIN call.before.voices

\* C13: a frame callback that is given no landmarks (detection returned an
\* empty sequence of hands, returned nothing, or threw) starts no voice and
\* leaves every finger-track entry and every string debounce timestamp as it
\* was.
C13_EmptyFrameNoEffect ==
    [][(frames' # frames /\ frame'.landmarks = << >>) =>
          /\ engine' = engine
          /\ lastFingerData' = lastFingerData
          /\ stringDebounceRef' = stringDebounceRef
          /\ accepted' = accepted
          /\ frame'.triggers = << >>]_vars

\* C13 witness: a frame with an empty sequence of hands has been processed
\* while a finger was tracked and a string had been triggered.
C13_Witness ==
    /\ frame.ran
    /\ frame.landmarks = << >>
    /\ frame.outcome = "rescheduled"
    /\ \E f \in FingerIds : frame.lastBefore[f].seen
    /\ \E s \in Strings : frame.debBefore[s] > 0

\* C14: a frame callback that finds the video paused or ended processes no
\* landmarks, starts no voice and schedules no further frame; from then on no
\* frame callback runs, and the voices started earlier stay as they were
\* scheduled (no step cancels or re-schedules them).
C14_StoppedLoop ==
    [][/\ (frames' # frames /\ videoPaused) =>
             /\ engine' = engine
             /\ lastFingerData' = lastFingerData
             /\ stringDebounceRef' = stringDebounceRef
             /\ accepted' = accepted
             /\ frame'.triggers = << >> /\ frame'.updates = << >>
             /\ loop'.state = "stopped"
       /\ loop.state = "stopped" =>
             /\ frames' = frames
             /\ loop'.state = "stopped"
             /\ engine'.voices = engine.voices]_vars

\* C14 witness: the loop has stopped on a paused video while a voice started
\* by an earlier frame is wired.
C14_Witness ==
    /\ loop.state = "stopped"
    /\ frame.outcome = "returned"
    /\ videoPaused
    /\ \E i \in DOMAIN engine.voices : engine.voices[i].wired

\* C15: a step that changes the instrument (a preset is selected, which
\* calls updateConfig) leaves every finger-track entry and every string
\* debounce timestamp as it was; and the strings a frame triggers are decided
\* by the frame's landmarks and timestamp and that state alone, whichever
\* preset is selected.
C15_ConfigLeavesTriggerState ==
    /\ [][instrument' # instrument =>
             /\ lastFingerData' = lastFingerData
             /\ stringDebounceRef' = stringDebounceRef
             /\ accepted' = accepted]_vars
    /\ [](\A k \in DOMAIN frame.updates :
             LET u == frame.updates[k]
             IN  u.fired = IF ClassifiedOpen(u) /\ AboveThreshold(u) /\ InBand(u)
                           THEN {s \in Strings : Reached(u, s) /\ DebounceOver(u, s)}
                           ELSE {})

\* C15 witness: a preset other than the one of the latest frame is selected
\* while a finger is tracked and a string has been triggered.
C15_Witness ==
    /\ frame.ran
    /\ frame.instrument # instrument
    /\ engine.config = INSTRUMENT_PRESETS[instrument].config
    /\ \E f \in FingerIds : lastFingerData[f].seen
    /\ \E s \in Strings : stringDebounceRef[s] > 0

\* C16: init is idempotent.  After any number of init calls, one after the
\* other or overlapping (a call made while another awaits resume), the
\* persistent graph has been constructed at most once, and exactly once as
\* soon as a call got to construct the audio context; every voice, created
\* before or after a repeated init, is wired into the master bus of that one
\* graph.
C16_InitOnce ==
    /\ engine.graphs <= 1
    /\ (\E i \in DOMAIN inits : inits[i].ctx # "null") => engine.graphs = 1
    /\ (engine.graphs = 1) <=> (engine.ctx # "null")
    /\ \A i \in DOMAIN engine.voices : engine.voices[i].bus = 1

\* C16 witness: init has been called again, while an earlier call was still
\* awaiting resume or after it, on an engine that already had a voice.
C16_Witness ==
    /\ call.op = "init"
    /\ call.outcome = "resolved"
    /\ Len(call.initsBefore) >= 1
    /\ \E i \in DOMAIN call.initsBefore : call.initsBefore[i].outcome = "pending"
    /\ call.before.voices # << >>
    /\ engine.graphs = 1

\* The latest call on the engine was a playNote that created a voice.
VoiceCreated ==
    /\ call.op = "playNote"
    /\ Len(call.after.voices) = Len(call.before.voices) + 1

\* The voice the latest playNote created, the audio-clock time of the call
\* and the config that was active at the call.
CreatedVoice == call.after.voices[Len(call.after.voices)]
CallTime == call.before.currentTime
CallConfig == call.before.config

\* The times of the automation events of an envelope, in scheduling order.
EventTimes(v) == [k \in DOMAIN v.envelope |-> v.envelope[k].time]

\* C17 (as amended): a playNote call on a ready engine at audio-clock time t
\* under the active config C starts the oscillator at t and stops it at
\* t + attack + decay + release + 0.1 s, from the config active at the call;
\* the envelope events are scheduled, in this order, at t (zero), at
\* t + attack (the attack ramp) or at t itself when attack < 0.005 s (the gain
\* is set directly), at t + attack + decay and at t + attack + decay +
\* release: non-decreasing times, all before the stop time.
C17_VoiceSchedule ==
    VoiceCreated =>
        LET v == CreatedVoice
            c == CallConfig
            t == CallTime
        IN  /\ v.start = t
            /\ v.stop = t + c.attack + c.decay + c.release + 100
            /\ EventTimes(v) = << t,
                                  IF c.attack < 5 THEN t ELSE t + c.attack,
                                  t + c.attack + c.decay,
                                  t + c.attack + c.decay + c.release >>
            /\ \A k \in 1 .. 3 : EventTimes(v)[k] <= EventTimes(v)[k + 1]
            /\ \A k \in 1 .. 4 : EventTimes(v)[k] < v.stop

\* C17 witness: a voice is created, after the clock has advanced and the
\* config has been changed, under a config whose attack is above zero and
\* below the instant-attack threshold.
C17_Witness ==
    /\ VoiceCreated
    /\ CallTime > 0
    /\ CallConfig # INSTRUMENT_PRESETS[InitialPreset].config
    /\ CallConfig.attack > 0 /\ CallConfig.attack < 5

\* C17 as stated: the envelope events are scheduled at t, t + attack,
\* t + attack + decay, t + attack + decay + release.
C17_Original ==
    VoiceCreated =>
        LET v == CreatedVoice
            c == CallConfig
            t == CallTime
        IN  /\ v.start = t
            /\ v.stop = t + c.attack + c.decay + c.release + 100
            /\ EventTimes(v) = << t,
                                  t + c.attack,
                                  t + c.attack + c.decay,
                                  t + c.attack + c.decay + c.release >>
            /\ \A k \in 1 .. 3 : EventTimes(v)[k] <= EventTimes(v)[k + 1]
            /\ \A k \in 1 .. 4 : EventTimes(v)[k] <= v.stop

\* C18 (as stated): the decay ramp of a voice ends at gain x sustain clamped
\* above a small positive floor: it is positive, it equals gain x sustain
\* whenever that product is above the floor, and it never exceeds the
\* configured gain.  (Levels in millionths; the floor is the 0.001 of the
\* decay target.)
C18_Original ==
    VoiceCreated =>
        LET target == CreatedVoice.envelope[3].value
            product == CallConfig.gain * CallConfig.sustain
        IN  /\ CreatedVoice.envelope[3].kind = "exponentialRamp"
            /\ target > 0
            /\ product > 1000 => target = product
            /\ target <= 1000 * CallConfig.gain

\* The value of a voice's gain at audio time tau, as the automation events
\* of its envelope define it: the value of the latest event at or before tau
\* when no ramp follows or tau is that event's time, the ramp's end value
\* when the ramp joins equal values, and otherwise a value strictly between
\* the two (a ramp is strictly monotonic).  tau is at or after the first
\* event.
GainAt(v, tau) ==
    LET E == v.envelope
        k == CHOOSE i \in DOMAIN E :
                /\ E[i].time <= tau
                /\ \A j \in DOMAIN E : E[j].time <= tau => j <= i
    IN  IF k = Len(E) \/ tau = E[k].time \/ E[k + 1].value = E[k].value
        THEN [kind |-> "exact", lo |-> E[k].value, hi |-> E[k].value]
        ELSE [kind |-> "between",
              lo |-> IF E[k].value < E[k + 1].value THEN E[k].value ELSE E[k + 1].value,
              hi |-> IF E[k].value < E[k + 1].value THEN E[k + 1].value ELSE E[k].value]

Exactly(level) == [kind |-> "exact", lo |-> level, hi |-> level]

\* C19 (as amended): under a config whose attack is below 0.005 s, playNote
\* schedules no attack ramp: the gain is set to the configured gain at t, so
\* the envelope's gain at t is the configured gain; the decay ramp starts
\* from there at once, so that at t + 0.005 s the gain lies between the decay
\* target and the configured gain.  Under an attack of 0.005 s or more a
\* linear ramp from 0 at t to the configured gain at t + attack is scheduled.
C19_InstantAttack ==
    VoiceCreated =>
        LET v == CreatedVoice
            c == CallConfig
            t == CallTime
        IN  /\ v.envelope[1] = [kind |-> "setValue", value |-> 0, time |-> t]
            /\ IF c.attack < 5
               THEN /\ \A k \in DOMAIN v.envelope : v.envelope[k].kind # "linearRamp"
                    /\ v.envelope[2] = [kind |-> "setValue", value |-> 1000 * c.gain,
                                        time |-> t]
                    /\ GainAt(v, t) = Exactly(1000 * c.gain)
                    /\ (c.attack + c.decay > 5
                          /\ c.gain * c.sustain + 1000 # 1000 * c.gain) =>
                           /\ GainAt(v, t + 5).kind = "between"
                           /\ {GainAt(v, t + 5).lo, GainAt(v, t + 5).hi}
                                = {c.gain * c.sustain + 1000, 1000 * c.gain}
               ELSE /\ v.envelope[2] = [kind |-> "linearRamp", value |-> 1000 * c.gain,
                                        time |-> t + c.attack]
                    /\ GainAt(v, t) = Exactly(0)
                    /\ GainAt(v, t + c.attack) = Exactly(1000 * c.gain)

\* C19 witness: a voice is created under a config with an attack below the
\* threshold, after one was created under a config with an attack at the
\* threshold.
C19_Witness ==
    /\ VoiceCreated
    /\ CallConfig.attack < 5
    /\ \E i \in DOMAIN call.before.voices : call.before.voices[i].config.attack >= 5

\* C19 as stated: under an attack below the threshold the gain is set to the
\* configured gain at t and the envelope's gain at t + 0.005 s equals the
\* configured gain; otherwise a linear ramp to the gain ends at t + attack.
C19_Original ==
    VoiceCreated =>
        LET v == CreatedVoice
            c == CallConfig
            t == CallTime
        IN  IF c.attack < 5
            THEN /\ \A k \in DOMAIN v.envelope : v.envelope[k].kind # "linearRamp"
                 /\ v.envelope[2] = [kind |-> "setValue", value |-> 1000 * c.gain,
                                     time |-> t]
                 /\ GainAt(v, t + 5) = Exactly(1000 * c.gain)
            ELSE v.envelope[2] = [kind |-> "linearRamp", value |-> 1000 * c.gain,
                                  time |-> t + c.attack]

\* The position k / (N + 1) lies between the last x and the current x of
\* update u, last x excluded and current x included.
PositionReached(u, k) ==
    \/ /\ (NUM_STRINGS + 1) * TrackedBefore(u).x < k * Unit
       /\ k * Unit <= (NUM_STRINGS + 1) * GivenX(u)
    \/ /\ (NUM_STRINGS + 1) * TrackedBefore(u).x > k * Unit
       /\ k * Unit >= (NUM_STRINGS + 1) * GivenX(u)

\* The update of a finger that every condition but the crossing lets trigger
\* string s.
MayTrigger(u, s) ==
    ClassifiedOpen(u) /\ AboveThreshold(u) /\ InBand(u) /\ DebounceOver(u, s)

\* C20 (as amended): the string with index s, for s in 0..N-1, is tested for
\* crossing at x = (s + 1) / (N + 1): an update that may trigger it does so
\* exactly when that position is reached.
C20_StringPositions ==
    \A k \in DOMAIN frame.updates :
        LET u == frame.updates[k]
        IN  \A s \in Strings :
                MayTrigger(u, s) =>
                    ((s \in u.fired) <=> PositionReached(u, s + 1))

\* C20 witness: a finger moving from 0.05 to 0.2 triggers string 0 at 1/13
\* and string 1 at 2/13, and not string 2 at 3/13.
C20_Witness ==
    \E k \in DOMAIN frame.updates :
        LET u == frame.updates[k]
        IN  /\ \A s \in Strings : MayTrigger(u, s)
            /\ 20 * TrackedBefore(u).x = Unit
            /\ 5 * GivenX(u) = Unit
            /\ u.fired = {0, 1}

\* C20 as stated: string s is tested at x = s / (N + 1).
C20_Original ==
    \A k \in DOMAIN frame.updates :
        LET u == frame.updates[k]
        IN  \A s \in Strings :
                MayTrigger(u, s) =>
                    ((s \in u.fired) <=> PositionReached(u, s))

\* C21: after a frame, for every per-finger update it made, of an OPEN or a
\* CLOSED finger, with or without a trigger, the entry of lastFingerData under
\* the key of (hand index, tip) is (1 - raw x, now) of that frame; two updates
\* of a frame have different keys, and the entry of every key the frame did
\* not update is what it was.
C21_TrackUpdated ==
    /\ \A k \in DOMAIN frame.updates :
          LET u == frame.updates[k]
          IN  /\ (u.hand * 100 + u.tip) \in DOMAIN lastFingerData
              /\ lastFingerData[u.hand * 100 + u.tip]
                   = [seen |-> TRUE,
                      x |-> Unit - frame.landmarks[u.hand + 1][u.tip].x,
                      time |-> frame.time]
    /\ \A k1, k2 \in DOMAIN frame.updates :
          k1 # k2 =>
             << frame.updates[k1].hand, frame.updates[k1].tip >>
                # << frame.updates[k2].hand, frame.updates[k2].tip >>
    /\ frame.ran =>
          \A f \in DOMAIN lastFingerData :
             (\A k \in DOMAIN frame.updates :
                 frame.updates[k].hand * 100 + frame.updates[k].tip # f)
                => lastFingerData[f] = frame.lastBefore[f]

\* C21 witness: a frame with two hands at different places has updated the
\* four fingers of each, closed ones and an open one that triggered.
C21_Witness ==
    /\ Len(frame.updates) = 8
    /\ frame.triggers # << >>
    /\ \E k \in DOMAIN frame.updates : ~frame.updates[k].open
    /\ lastFingerData[8].x # lastFingerData[108].x

\* The entry update u found for its finger is stale: it was written before
\* the previous frame callback, which did not observe the finger.
Stale(u) ==
    /\ TrackedBefore(u).seen
    /\ TrackedBefore(u).time < frame.prevTime

\* C22 (as stated): a stale entry never causes a trigger event when its
\* finger id is next observed.
C22_Original ==
    \A k \in DOMAIN frame.updates :
        Stale(frame.updates[k]) => frame.updates[k].fired = {}

\* C23: updateConfig is idempotent.  A call updateConfig(C) on an engine
\* whose latest call was updateConfig(C) changes nothing: the active config
\* stays C and the delay-mix gain keeps targeting C.delayMix.
C23_UpdateConfigIdempotent ==
    [][(/\ CallUpdateConfig
        /\ call.op = "updateConfig"
        /\ engine'.config = call.after.config) =>
           /\ engine' = [engine EXCEPT !.config = call.after.config]
           /\ engine.delayGain.exists =>
                 engine'.delayGain.target = engine'.config.delayMix]_vars

\* C23 witness: updateConfig has been called twice in a row with the same
\* config, other than the initial one, on an initialised engine.
C23_Witness ==
    /\ call.op = "updateConfig"
    /\ call.before.config = call.after.config
    /\ call.after.config # INSTRUMENT_PRESETS[InitialPreset].config
    /\ call.after.config.delayMix > 0
    /\ call.before.delayGain.exists
    /\ call.before.delayGain.target = call.after.delayGain.target

\* The ranges of a SynthConfig, with an attack that may be zero: decay and
\* release above zero, sustain, gain and delay-mix within 0..1 (thousandths),
\* filter cutoff above zero.
InRanges(c) ==
    /\ c.attack >= 0
    /\ c.decay > 0 /\ c.release > 0
    /\ c.sustain >= 0 /\ c.sustain <= 1000
    /\ c.gain >= 0 /\ c.gain <= 1000
    /\ c.delayMix >= 0 /\ c.delayMix <= 1000
    /\ c.filterFreq > 0
    /\ c.waveform \in {"sine", "square", "sawtooth", "triangle"}

\* C24 (as amended): in every reachable state of the application the
\* engine's active config is the config of the selected preset, and it (like
\* the config of every preset of INSTRUMENT_PRESETS) has decay and release
\* above zero, an attack of zero or more, sustain, gain and delay-mix within
\* 0..1 and a filter cutoff above zero.
C24_ConfigRanges ==
    /\ engine.config = INSTRUMENT_PRESETS[instrument].config
    /\ InRanges(engine.config)
    /\ \A p \in PresetIds : InRanges(INSTRUMENT_PRESETS[p].config)

\* C24 witness: the preset with attack 0 is active on an initialised engine.
C24_Witness ==
    /\ engine.ctx # "null"
    /\ instrument # InitialPreset
    /\ engine.config.attack = 0

\* C24 as stated: attack, decay and release of the active config are each
\* above zero (and the levels and the cutoff are in their ranges).
C24_Original ==
    /\ InRanges(engine.config)
    /\ engine.config.attack > 0

\* C25: any two accepted triggers of one string are more than 40 ms apart.
\* A trigger of the latest frame comes more than 40 ms after the latest
\* earlier trigger of its string, and no string is triggered twice in a
\* frame, however many fingers reach it.
C25_TriggersApart ==
    /\ \A j \in DOMAIN frame.triggers :
          LET s == frame.triggers[j].s
          IN  /\ frame.triggers[j].time = frame.time
              /\ frame.accBefore[s].ever =>
                    frame.time - frame.accBefore[s].time > 40
              /\ \A i \in DOMAIN frame.triggers :
                    frame.triggers[i].s = s => i = j
    /\ \A s \in Strings :
          accepted[s].ever => accepted[s].time <= frame.time

\* C25 witness: in one frame two OPEN fingers above the threshold reach the
\* same string, which is triggered once; and a string triggered in an earlier
\* frame is triggered again.
C25_Witness ==
    /\ \E k1, k2 \in DOMAIN frame.updates :
          /\ k1 # k2
          /\ \E s \in Strings :
                /\ MayTrigger(frame.updates[k1], s) /\ Reached(frame.updates[k1], s)
                /\ ClassifiedOpen(frame.updates[k2]) /\ AboveThreshold(frame.updates[k2])
                /\ InBand(frame.updates[k2]) /\ Reached(frame.updates[k2], s)
                /\ s \in frame.updates[k1].fired
    /\ \E j \in DOMAIN frame.triggers : frame.accBefore[frame.triggers[j].s].ever

\* String s has never been triggered when update u runs.
NeverTriggered(u, s) ==
    /\ ~frame.accBefore[s].ever
    /\ \A j \in 1 .. u.trigStart : frame.triggers[j].s # s

\* C26 (as stated): a string that has never been triggered is never
\* suppressed by debounce: at every frame timestamp, its first valid crossing
\* (OPEN finger, velocity above the threshold, y in the playable band) fires
\* a trigger.
C26_Original ==
    \A k \in DOMAIN frame.updates :
        LET u == frame.updates[k]
        IN  \A s \in Strings :
                (/\ ClassifiedOpen(u) /\ AboveThreshold(u) /\ InBand(u)
                 /\ Reached(u, s)
                 /\ NeverTriggered(u, s)) => s \in u.fired

\* The index finger of hand 0 in the k-th logged frame: its x, whether the
\* frame's landmarks make it OPEN, and whether the move from the frame before
\* is above the velocity threshold.
PassX(k) == Unit - passLog[k].hand[8].x

PassOpen(k) ==
    LET w == passLog[k].hand[0]
        q == passLog[k].hand[6]
        t == passLog[k].hand[8]
    IN  100 * ((t.x - w.x) * (t.x - w.x) + (t.y - w.y) * (t.y - w.y))
          > 81 * ((q.x - w.x) * (q.x - w.x) + (q.y - w.y) * (q.y - w.y))

PassFast(k) ==
    /\ passLog[k].time > passLog[k - 1].time
    /\ Abs(PassX(k) - PassX(k - 1)) * 100000
         > 15 * Unit * (passLog[k].time - passLog[k - 1].time)

\* Frames i .. j are one pass: from frame i on the finger is OPEN, moves in one
\* direction and every move is above the velocity threshold.
PassRight(i, j) ==
    \A k \in (i + 1) .. j : PassOpen(k) /\ PassFast(k) /\ PassX(k - 1) < PassX(k)

PassLeft(i, j) ==
    \A k \in (i + 1) .. j : PassOpen(k) /\ PassFast(k) /\ PassX(k - 1) > PassX(k)

\* String s sits at x = (s + 1) / (NUM_STRINGS + 1).
OnString(x, s) == x * (NUM_STRINGS + 1) = (s + 1) * Unit
LeftOfString(x, s) == x * (NUM_STRINGS + 1) < (s + 1) * Unit
RightOfString(x, s) == x * (NUM_STRINGS + 1) > (s + 1) * Unit

\* The pass i .. j goes over string s: the string lies strictly between the
\* first and the last x, or the last frame lands on it.
PassesOver(i, j, s) ==
    \/ LeftOfString(PassX(i), s) /\ ~LeftOfString(PassX(j), s)
    \/ RightOfString(PassX(i), s) /\ ~RightOfString(PassX(j), s)

\* The frames after i, up to j, in which s satisfied the crossing condition.
CrossingFrames(i, j, s) == {k \in (i + 1) .. j : s \in passLog[k].crossed}

\* C27: a single pass of a finger over a string is detected as a crossing in
\* exactly one frame.  For an OPEN index finger whose x moves monotonically in
\* one direction over consecutive frames, every move above the velocity
\* threshold, each string the pass goes over (strictly between the first and
\* the last x, or reached by the last frame) satisfies the crossing condition
\* in exactly one of the frames after the first, also when a frame lands
\* exactly on the string; and a string the first frame already stood on is
\* not detected again when the finger leaves it.
C27_SinglePass ==
    \A i \in DOMAIN passLog : \A j \in DOMAIN passLog :
        (i < j /\ (PassRight(i, j) \/ PassLeft(i, j))) =>
            \A s \in Strings :
                /\ PassesOver(i, j, s) => Cardinality(CrossingFrames(i, j, s)) = 1
                /\ OnString(PassX(i), s) => CrossingFrames(i, j, s) = {}

\* A pass of three frames whose middle frame lands exactly on a string and
\* whose last frame is beyond it: the string was detected in the middle frame
\* only.
C27_Witness ==
    \E i \in DOMAIN passLog : \E s \in Strings :
        /\ i + 2 \in DOMAIN passLog
        /\ PassRight(i, i + 2) \/ PassLeft(i, i + 2)
        /\ OnString(PassX(i + 1), s)
        /\ CrossingFrames(i, i + 2, s) = {i + 1}

====
